---- MODULE Spec2Model ----
(***************************************************************************)
(* Model of rust_engine/src/main.rs: the command-line program that         *)
(* resolves a ticker to a CIK, fetches the company's tagged facts and      *)
(* normalises them into one (fiscal year, value) series per metric.        *)
(*                                                                         *)
(* Strings that the program parses (dates) are sequences of one-character  *)
(* strings, so that parsing is computed and not assumed.  Values are JSON  *)
(* numbers; the model uses integers, on which f64 abs and > are exact.     *)
(* serde_json yields no NaN and no infinity, so abs/> is a total order on  *)
(* magnitudes, as here.                                                    *)
(***************************************************************************)
EXTENDS Integers, Sequences, FiniteSets, TLC

\* an absent command-line symbol or local
None == "None"

\* Option<T>: Some(x), and None with a placeholder of T's kind
Some(x) == [some |-> TRUE, v |-> x]
NoNumber == [some |-> FALSE, v |-> 0]
NoText == [some |-> FALSE, v |-> <<>>]

(***************************************************************************)
(* Bounds of the model.                                                    *)
(***************************************************************************)
\* the largest number of observations in a document of Init
MaxObs == 2

(***************************************************************************)
(* chrono: NaiveDate::parse_from_str(s, "%Y-%m-%d") and date arithmetic.   *)
(***************************************************************************)
Digits == <<"0", "1", "2", "3", "4", "5", "6", "7", "8", "9">>

IsDigit(c) == \E i \in 1..10 : Digits[i] = c

DigitVal(c) == (CHOOSE i \in 1..10 : Digits[i] = c) - 1

\* str::trim_start on the characters the inputs use as white space
RECURSIVE TrimStart(_)
TrimStart(s) == IF s # <<>> /\ Head(s) = " " THEN TrimStart(Tail(s)) ELSE s

\* the number of leading digits of s, at most max
RECURSIVE DigitRun(_, _)
DigitRun(s, max) ==
    IF max = 0 \/ s = <<>> \/ ~IsDigit(Head(s)) THEN 0
    ELSE 1 + DigitRun(Tail(s), max - 1)

RECURSIVE DigitsValue(_, _)
DigitsValue(s, n) ==
    IF n = 0 THEN 0 ELSE DigitsValue(s, n - 1) * 10 + DigitVal(s[n])

\* an upper limit on digits for a signed year (usize::MAX in chrono; a year of
\* more than 6 digits is out of NaiveDate's range whatever its digits)
MaxSignedDigits == 7

\* scan::number(s, min = 1, max): the leading digits, at least one
ScanNumber(s, max) ==
    LET n == DigitRun(s, max)
    IN  IF n = 0 THEN [ok |-> FALSE, v |-> 0, rest |-> s]
        ELSE [ok |-> TRUE, v |-> DigitsValue(s, n),
              rest |-> SubSeq(s, n + 1, Len(s))]

\* Item::Numeric(Year): an explicit sign lifts the 4-digit width
ScanYear(s0) ==
    LET s == TrimStart(s0)
    IN  IF s # <<>> /\ Head(s) = "-"
        THEN LET r == ScanNumber(Tail(s), MaxSignedDigits)
             IN  [ok |-> r.ok, v |-> 0 - r.v, rest |-> r.rest]
        ELSE IF s # <<>> /\ Head(s) = "+"
        THEN ScanNumber(Tail(s), MaxSignedDigits)
        ELSE ScanNumber(s, 4)

\* Item::Numeric(Month) and Item::Numeric(Day): one or two digits
ScanTwo(s) == ScanNumber(TrimStart(s), 2)

\* Item::Literal("-")
ScanDash(s) ==
    IF s # <<>> /\ Head(s) = "-" THEN [ok |-> TRUE, rest |-> Tail(s)]
    ELSE [ok |-> FALSE, rest |-> s]

MinYear == -262144
MaxYear == 262143

IsLeap(y) == (y % 4 = 0 /\ y % 100 # 0) \/ y % 400 = 0

DaysInMonth(y, m) ==
    IF m = 2 THEN (IF IsLeap(y) THEN 29 ELSE 28)
    ELSE IF m \in {4, 6, 9, 11} THEN 30 ELSE 31

\* NaiveDate::from_ymd_opt
ValidYmd(y, m, d) ==
    /\ y >= MinYear /\ y <= MaxYear
    /\ m >= 1 /\ m <= 12
    /\ d >= 1 /\ d <= DaysInMonth(y, m)

DateErr == [ok |-> FALSE, y |-> 0, m |-> 0, d |-> 0]

\* NaiveDate::parse_from_str(s, "%Y-%m-%d"): Ok(date) or Err
ParseDate(s) ==
    LET yr == ScanYear(s)
        d1 == ScanDash(yr.rest)
        mo == ScanTwo(d1.rest)
        d2 == ScanDash(mo.rest)
        dy == ScanTwo(d2.rest)
    IN  IF ~yr.ok THEN DateErr
        ELSE IF ~d1.ok THEN DateErr
        ELSE IF ~mo.ok THEN DateErr
        ELSE IF ~d2.ok THEN DateErr
        ELSE IF ~dy.ok THEN DateErr
        ELSE IF dy.rest # <<>> THEN DateErr
        ELSE IF ~ValidYmd(yr.v, mo.v, dy.v) THEN DateErr
        ELSE [ok |-> TRUE, y |-> yr.v, m |-> mo.v, d |-> dy.v]

RECURSIVE DaysBeforeMonth(_, _)
DaysBeforeMonth(y, m) ==
    IF m = 1 THEN 0 ELSE DaysBeforeMonth(y, m - 1) + DaysInMonth(y, m - 1)

\* floor division, whatever the sign of a (b > 0)
FloorDiv(a, b) == (a - (a % b)) \div b

\* the day number of a date (proleptic Gregorian calendar)
DayNumber(dt) ==
    LET p == dt.y - 1
    IN  365 * p + FloorDiv(p, 4) - FloorDiv(p, 100) + FloorDiv(p, 400)
        + DaysBeforeMonth(dt.y, dt.m) + dt.d

\* (d_end - d_start).num_days()
NumDays(d_end, d_start) == DayNumber(d_end) - DayNumber(d_start)

\* the width of u16
U16 == 65536

\* d_end.year() as u16: i32 to u16 keeps the low 16 bits
YearAsU16(dt) == dt.y % U16

(***************************************************************************)
(* The metric catalog, main.rs lines 71-86: (name, tags, is_instant).      *)
(***************************************************************************)
Metric(n, t, i) == [name |-> n, tags |-> t, is_instant |-> i]

metrics_config == <<
    Metric("Revenue", <<"Revenues", "SalesRevenueNet",
        "RevenueFromContractWithCustomerExcludingAssessedTax",
        "SalesRevenueGoodsNet">>, FALSE),
    Metric("Net Income", <<"NetIncomeLoss", "ProfitLoss",
        "NetIncomeLossAvailableToCommonStockholdersBasic">>, FALSE),
    Metric("Operating Income (EBIT)", <<"OperatingIncomeLoss">>, FALSE),
    Metric("EPS Diluted", <<"EarningsPerShareDiluted",
        "EarningsPerShareBasicAndDiluted">>, FALSE),
    Metric("Operating Cash Flow",
        <<"NetCashProvidedByUsedInOperatingActivities">>, FALSE),
    Metric("CapEx", <<"PaymentsToAcquirePropertyPlantAndEquipment",
        "PaymentsToAcquireProductiveAssets">>, FALSE),
    Metric("SBC", <<"ShareBasedCompensation",
        "EmployeeServiceShareBasedCompensationNonvestedAwardsTotalCompensationCostNotYetRecognized",
        "ShareBasedCompensationArrangementByShareBasedPaymentAwardEquityInstrumentsOtherThanOptionsVestedInPeriodTotalFairValue">>,
        FALSE),
    Metric("Total Equity", <<"StockholdersEquity",
        "StockholdersEquityIncludingPortionAttributableToNoncontrollingInterest">>,
        TRUE),
    Metric("Cash & Equiv.", <<"CashAndCashEquivalentsAtCarryingValue",
        "CashCashEquivalentsAndShortTermInvestments">>, TRUE),
    Metric("Long Term Debt", <<"LongTermDebt", "LongTermDebtNoncurrent">>, TRUE),
    Metric("Shares Outstanding", <<"CommonStockSharesOutstanding",
        "WeightedAverageNumberOfDilutedSharesOutstanding",
        "WeightedAverageNumberOfSharesOutstandingBasicAndDiluted">>, TRUE) >>

NumMetrics == Len(metrics_config)

MetricNames == {metrics_config[i].name : i \in 1..NumMetrics}

Range(s) == {s[i] : i \in 1..Len(s)}

\* the orders in which a HashMap with key set S can be iterated
Perms(S) ==
    {p \in [1..Cardinality(S) -> S] : \A i, j \in 1..Cardinality(S) :
        p[i] = p[j] => i = j}

EmptyMap == [k \in {} |-> 0]

Abs(v) == IF v < 0 THEN 0 - v ELSE v

(***************************************************************************)
(* Lines 99-129: one FactUnit of a tag of a metric, kept or skipped.  The  *)
(* result is the list of pairs pushed on extracted_data: none or one.      *)
(***************************************************************************)
FlowMin == 350
FlowMax == 380

InFlowWindow(duration_days) ==
    duration_days > FlowMin /\ duration_days < FlowMax

Classify(unit, is_instant) ==
    IF ~unit.val.some THEN <<>>
    ELSE IF ~unit.end.some THEN <<>>
    ELSE LET d_end == ParseDate(unit.end.v)
         IN  IF ~d_end.ok THEN <<>>
             ELSE IF ~is_instant
             THEN IF ~unit.start.some THEN <<>>
                  ELSE LET d_start == ParseDate(unit.start.v)
                       IN  IF ~d_start.ok THEN <<>>
                           ELSE IF InFlowWindow(NumDays(d_end, d_start))
                           THEN << <<YearAsU16(d_end), unit.val.v>> >>
                           ELSE <<>>
             ELSE << <<YearAsU16(d_end), unit.val.v>> >>

\* lines 98-130: the observations of one unit bucket, in document order
RECURSIVE PoolUnits(_, _)
PoolUnits(units, is_instant) ==
    IF units = <<>> THEN <<>>
    ELSE Classify(Head(units), is_instant) \o PoolUnits(Tail(units), is_instant)

\* a variant of PoolBuckets that reads the USD bucket alone
PoolUsdOnly(data, order, is_instant) ==
    IF "USD" \in DOMAIN data THEN PoolUnits(data["USD"], is_instant) ELSE <<>>

\* lines 97-131: the unit buckets of one tag, in the map's iteration order
RECURSIVE PoolBuckets(_, _, _)
PoolBuckets(data, order, is_instant) ==
    IF order = <<>> THEN <<>>
    ELSE PoolUnits(data[Head(order)], is_instant)
         \o PoolBuckets(data, Tail(order), is_instant)

\* lines 94-133: the tags of one metric, in catalog order; a tag the document
\* does not hold contributes nothing
RECURSIVE PoolTags(_, _, _, _)
PoolTags(gaap, orders, tags, is_instant) ==
    IF tags = <<>> THEN <<>>
    ELSE (IF Head(tags) \in DOMAIN gaap    \* gaap.get(tag)
          THEN PoolBuckets(gaap[Head(tags)], orders[Head(tags)], is_instant)
          ELSE <<>>)
         \o PoolTags(gaap, orders, Tail(tags), is_instant)

\* variants of Wins: the signed values compared, and a tie replacing
WinsSigned(val, entry) == val > entry

WinsOrTies(val, entry) == Abs(val) >= Abs(entry)

\* line 141: whether val replaces the year's entry
Wins(val, entry) == Abs(val) > Abs(entry)

\* lines 139-144: one step of the reconciliation loop

Reconcile(map, fy, val) ==
    IF fy \in DOMAIN map
    THEN (IF Wins(val, map[fy]) THEN [map EXCEPT ![fy] = val] ELSE map)
    ELSE [k \in DOMAIN map \cup {fy} |-> IF k = fy THEN val ELSE map[k]]

\* line 147: sort_by_key(|k| k.0), a stable sort
RECURSIVE InsertByKey(_, _)
InsertByKey(sorted, p) ==
    IF sorted = <<>> THEN <<p>>
    ELSE IF p[1] < Head(sorted)[1] THEN <<p>> \o sorted
    ELSE <<Head(sorted)>> \o InsertByKey(Tail(sorted), p)

RECURSIVE SortByKeyFrom(_, _)
SortByKeyFrom(sorted, rest) ==
    IF rest = <<>> THEN sorted
    ELSE SortByKeyFrom(InsertByKey(sorted, Head(rest)), Tail(rest))

SortByKey(v) == SortByKeyFrom(<<>>, v)

\* line 146: unique_map.into_iter().collect(), in the map's iteration order
Collect(map, order) == [i \in 1..Len(order) |-> <<order[i], map[order[i]]>>]

\* line 149: results.insert(metric_name, final_vec)
Insert(map, k, v) ==
    [n \in DOMAIN map \cup {k} |-> IF n = k THEN v ELSE map[n]]

\* line 45: args[1].to_uppercase(), on the symbols of the model
ToUppercase(s) ==
    CASE s = "aapl" -> "AAPL"
      [] s = "Msft" -> "MSFT"
      [] OTHER -> s

(***************************************************************************)
(* Inputs: symbols, the ticker table, observations and documents.          *)
(***************************************************************************)
D2(n) == <<Digits[(n \div 10) + 1], Digits[(n % 10) + 1]>>

\* the text of a date as the documents write it, "YYYY-MM-DD"
Iso(y, m, d) ==
    D2(y \div 100) \o D2(y % 100) \o <<"-">> \o D2(m) \o <<"-">> \o D2(d)

\* a FactUnit; its fy and fp fields are deserialised and never read
Obs(val, start, end) == [val |-> val, start |-> start, end |-> end]

Filing(tag, unit, obs) == [tag |-> tag, unit |-> unit, obs |-> obs]

Annual(y, val) == Obs(Some(val), Some(Iso(y, 1, 1)), Some(Iso(y, 12, 31)))

SeqsUpTo(S, n) == UNION {[1..k -> S] : k \in 0..n}

\* the observations filed under (t, u), in document order
RECURSIVE Bucket(_, _, _)
Bucket(fs, t, u) ==
    IF fs = <<>> THEN <<>>
    ELSE (IF Head(fs).tag = t /\ Head(fs).unit = u THEN <<Head(fs).obs>>
          ELSE <<>>) \o Bucket(Tail(fs), t, u)

\* the us-gaap section that a list of filings makes
BuildGaap(fs) ==
    [t \in {f.tag : f \in Range(fs)} |->
        [u \in {f.unit : f \in {g \in Range(fs) : g.tag = t}} |->
            Bucket(fs, t, u)]]

Doc(gaap) == [entityName |-> "Apple Inc.", us_gaap |-> gaap]

\* a document with no us-gaap section
NoGaapDoc == Doc([some |-> FALSE, v |-> EmptyMap])

UnitNames == {"USD", "EUR"}

\* The documents of Spec, for the reconciliation: up to MaxObs observations
\* of two aliases of Revenue, with a tie (100, -100), a greater magnitude of
\* the other sign, a second year, and a quarter that a FLOW metric skips.
ReconObs ==
    { Annual(2020, 100), Annual(2020, -100), Annual(2020, -150),
      Annual(2021, 100),
      Obs(Some(260), Some(Iso(2020, 10, 1)), Some(Iso(2020, 12, 31))) }

ReconTags == {"Revenues", "SalesRevenueNet"}

ReconBuckets ==
    {<<"Revenues", "USD">>, <<"Revenues", "EUR">>, <<"SalesRevenueNet", "USD">>}

ReconFilings == {Filing(b[1], b[2], o) : b \in ReconBuckets, o \in ReconObs}

ReconDocs ==
    {NoGaapDoc}
    \cup {Doc(Some(BuildGaap(fs))) : fs \in SeqsUpTo(ReconFilings, MaxObs)}

\* The documents of SpecClassify, for the period classifier: one probe
\* observation under a FLOW tag or under an INSTANT tag, alone or beside
\* kept observations of the same tag, with or without a tag of no metric.
Text(val, start, end) == Obs(Some(val), Some(start), Some(end))

ProbeObs ==
    { Text(1000, Iso(2020, 1, 1), Iso(2020, 12, 16)),      \* 350 days
      Text(1000, Iso(2020, 1, 1), Iso(2020, 12, 17)),      \* 351 days
      Text(1000, Iso(2020, 1, 1), Iso(2021, 1, 14)),       \* 379 days
      Text(1000, Iso(2020, 1, 1), Iso(2021, 1, 15)),       \* 380 days
      Text(260, Iso(2019, 10, 1), Iso(2019, 12, 31)),      \* a quarter
      Text(1000, Iso(2021, 1, 1), Iso(2020, 1, 1)),        \* end before start
      Obs(Some(1000), NoText, Some(Iso(2019, 3, 31))),     \* no start
      Obs(Some(1000), Some(Iso(2020, 1, 1)), NoText),      \* no end
      Obs(NoNumber, Some(Iso(2020, 1, 1)), Some(Iso(2020, 12, 31))),
      Text(1000, Iso(2020, 13, 1), Iso(2020, 12, 31)),     \* start: month 13
      Text(1000, Iso(2020, 1, 1), Iso(2021, 2, 30)),       \* end: 30 February
      Text(1000, Iso(2020, 1, 1),
           <<"2", "0", "2", "0", "1", "2", "3", "1">>),    \* end: no dashes
      Text(1000, Iso(2020, 1, 1),
           Iso(2020, 12, 31) \o <<"T", "0", "0">>),        \* end: trailing text
      Text(1000, <<"2", "0", "2", "0", "-", "1", "-", "1">>,
           <<" ">> \o Iso(2020, 12, 31)),                  \* forms chrono reads
      Text(1000, <<"+", "7", "0", "0", "0", "0", "-", "0", "1", "-", "0", "1">>,
           <<"+", "7", "0", "0", "0", "0", "-", "1", "2", "-", "3", "1">>) }

ProbeTags == {"Revenues", "StockholdersEquity"}

\* a tag that no metric lists
UnmatchedTag == "Goodwill"

ProbeFilings(t, p) ==
    LET P == Filing(t, "USD", p)
        K1 == Filing(t, "USD", Annual(2020, 100))
        K2 == Filing(t, "EUR", Annual(2020, -100))
    IN  {<<P>>, <<K1, P>>, <<P, K1>>, <<K1, K2, P>>, <<P, K1, K2>>}

ClassifyDocs ==
    {Doc(Some(BuildGaap(fs \o g))) :
        fs \in UNION {ProbeFilings(t, p) : t \in ProbeTags, p \in ProbeObs},
        g \in {<<>>, <<Filing(UnmatchedTag, "USD", Annual(2020, 100))>>}}

Documents(s) == IF s = "reconcile" THEN ReconDocs ELSE ClassifyDocs

RemoveAt(s, i) == SubSeq(s, 1, i - 1) \o SubSeq(s, i + 1, Len(s))

\* the metrics that list tag t
OwnersOf(t) == {j \in 1..NumMetrics : t \in Range(metrics_config[j].tags)}

\* the aliases of the metric that owns tag t
AliasesOf(t) == UNION {Range(metrics_config[i].tags) : i \in OwnersOf(t)}

\* the places <<tag, unit, index>> of the observations of a us-gaap section
Places(gaap) ==
    UNION {UNION {{<<t, u, i>> : i \in 1..Len(gaap[t][u])} :
                  u \in DOMAIN gaap[t]} : t \in DOMAIN gaap}

\* gaap without the observation at place pl; its bucket stays
RemoveObs(gaap, pl) ==
    [gaap EXCEPT ![pl[1]][pl[2]] = RemoveAt(@, pl[3])]

\* gaap with observation o filed last under tag t and unit u
AddObs(gaap, t, u, o) ==
    [t2 \in DOMAIN gaap \cup {t} |->
        IF t2 # t THEN gaap[t2]
        ELSE IF t \notin DOMAIN gaap THEN [u2 \in {u} |-> <<o>>]
        ELSE [u2 \in DOMAIN gaap[t] \cup {u} |->
                IF u2 # u THEN gaap[t][u2]
                ELSE IF u \in DOMAIN gaap[t] THEN Append(gaap[t][u], o)
                ELSE <<o>>]]

\* gaap with one observation moved to another alias of its metric, or to
\* another unit bucket
MovedGaaps(gaap) ==
    UNION {{AddObs(RemoveObs(gaap, pl), b[1], b[2], gaap[pl[1]][pl[2]][pl[3]]) :
                b \in {c \in (AliasesOf(pl[1]) \cap ReconTags) \X UnitNames :
                          c # <<pl[1], pl[2]>>}} :
           pl \in Places(gaap)}

\* whether the program skips the observation at place pl
IsSkipped(gaap, pl) ==
    \A j \in OwnersOf(pl[1]) :
        Classify(gaap[pl[1]][pl[2]][pl[3]], metrics_config[j].is_instant) = <<>>

\* gaap without one skipped observation, or without one tag of no metric
RemovedGaaps(gaap) ==
    {RemoveObs(gaap, pl) : pl \in {q \in Places(gaap) : IsSkipped(gaap, q)}}
    \cup {[t2 \in DOMAIN gaap \ {t} |-> gaap[t2]] :
             t \in {x \in DOMAIN gaap : OwnersOf(x) = {}}}

\* what the facts service may return to the second run, given what it
\* returned to the first: <<relation, document>>
Related(s, doc) ==
    {<<"same", doc>>}
    \cup (IF ~doc.us_gaap.some THEN {}
          ELSE IF s = "reconcile"
          THEN {<<"moved", Doc(Some(g))>> : g \in MovedGaaps(doc.us_gaap.v)}
          ELSE {<<"removed", Doc(Some(g))>> : g \in RemovedGaaps(doc.us_gaap.v)})

\* the ticker table, keyed as company_tickers.json is
TickerTable ==
    [k \in {"0", "1"} |->
        IF k = "0" THEN [cik_str |-> 320193, ticker |-> "AAPL"]
        ELSE [cik_str |-> 789019, ticker |-> "MSFT"]]

\* the command line: no symbol, a listed symbol, an unlisted one
Symbols == {None, "aapl", "ZZZZ"}

(***************************************************************************)
(* State.                                                                  *)
(***************************************************************************)
VARIABLES
    suite,          \* the documents the facts service draws from
    args,           \* args[1], or None when the command line has no symbol
    fetched,        \* the document the facts service returned, per run
    relation,       \* how the second run's document relates to the first's
    run,            \* the run of the program in progress: 1 or 2
    pc,             \* the position of main
    target_ticker,
    mapping_resp,   \* the ticker table with its iteration order
    target_cik,
    facts,          \* the document with the iteration order of its unit maps
    mi,             \* the index in metrics_config of the metric in progress
    extracted_data,
    ri,             \* the number of pairs of extracted_data reconciled
    unique_map,
    results,
    out,            \* what each run printed: no line, or the report
    status,         \* what each run returned: "running", "Ok" or "Err"
    pools,          \* per run and metric, the extracted_data it pooled
    unit_orders     \* per run, the iteration order of the unit maps

vars ==
    <<suite, args, fetched, relation, run, pc, target_ticker, mapping_resp,
      target_cik, facts, mi, extracted_data, ri, unique_map, results, out,
      status, pools, unit_orders>>

inputs == <<suite, args>>

service == <<fetched, relation>>

locals ==
    <<target_ticker, mapping_resp, target_cik, facts, mi, extracted_data, ri,
      unique_map, results>>

ghosts == <<pools, unit_orders>>

\* the state of main at its entry
Entry ==
    /\ pc = "start"
    /\ target_ticker = None
    /\ mapping_resp = None
    /\ target_cik = 0
    /\ facts = None
    /\ mi = 1
    /\ extracted_data = <<>>
    /\ ri = 0
    /\ unique_map = EmptyMap
    /\ results = EmptyMap

\* Two runs of the program on one command line.
InitSuite(s) ==
    /\ suite = s
    /\ args \in Symbols
    /\ fetched = [r \in 1..2 |-> NoGaapDoc]
    /\ relation = "none"
    /\ run = 1
    /\ Entry
    /\ out = [r \in 1..2 |-> <<>>]
    /\ status = [r \in 1..2 |-> "running"]
    /\ pools = [r \in 1..2 |-> EmptyMap]
    /\ unit_orders = [r \in 1..2 |-> EmptyMap]

Init == InitSuite("reconcile")

InitClassify == InitSuite("classify")

(***************************************************************************)
(* main, lines 42-161.                                                     *)
(***************************************************************************)
Return(st) ==
    /\ pc' = "exit"
    /\ status' = [status EXCEPT ![run] = st]

\* line 44: no symbol on the command line
NoSymbol ==
    /\ pc = "start"
    /\ args = None
    /\ Return("Ok")
    /\ UNCHANGED <<inputs, service, run, locals, out, ghosts>>

\* line 45
ReadSymbol ==
    /\ pc = "start"
    /\ args # None
    /\ target_ticker' = ToUppercase(args)
    /\ pc' = "mapping"
    /\ UNCHANGED <<inputs, service, run, mapping_resp, target_cik, facts, mi,
                   extracted_data, ri, unique_map, results, out, status,
                   ghosts>>

\* line 53: the ticker table arrives; its HashMap has some iteration order
FetchMapping ==
    /\ pc = "mapping"
    /\ \E order \in Perms(DOMAIN TickerTable) :
            mapping_resp' = [entries |-> TickerTable, order |-> order]
    /\ pc' = "lookup"
    /\ UNCHANGED <<inputs, service, run, target_ticker, target_cik, facts, mi,
                   extracted_data, ri, unique_map, results, out, status,
                   ghosts>>

\* lines 49, 53, 68: building the client, a request or a deserialisation
\* fails, and ? returns the error
FetchFails ==
    /\ pc = "mapping" \/ (pc = "found" /\ target_cik # 0)
    /\ Return("Err")
    /\ UNCHANGED <<inputs, service, run, locals, out, ghosts>>

\* lines 55-61: the cik of the first entry, in iteration order, of the ticker
RECURSIVE FindCik(_, _, _)
FindCik(entries, order, ticker) ==
    IF order = <<>> THEN 0
    ELSE IF entries[Head(order)].ticker = ticker
    THEN entries[Head(order)].cik_str
    ELSE FindCik(entries, Tail(order), ticker)

Lookup ==
    /\ pc = "lookup"
    /\ target_cik' =
           FindCik(mapping_resp.entries, mapping_resp.order, target_ticker)
    /\ mapping_resp' = None      \* moved into the loop and dropped
    /\ pc' = "found"
    /\ UNCHANGED <<inputs, service, run, target_ticker, facts, mi,
                   extracted_data, ri, unique_map, results, out, status,
                   ghosts>>

\* line 63: the symbol is not in the table
NotFound ==
    /\ pc = "found"
    /\ target_cik = 0
    /\ Return("Ok")
    /\ UNCHANGED <<inputs, service, run, locals, out, ghosts>>

\* the iteration orders the unit maps of a us-gaap section can have
UnitOrders(gaap) ==
    {o \in [DOMAIN gaap -> UNION {Perms(DOMAIN gaap[t]) : t \in DOMAIN gaap}] :
        \A t \in DOMAIN gaap : o[t] \in Perms(DOMAIN gaap[t])}

\* lines 63-68 and 90: the facts arrive; each units HashMap has some iteration
\* order.  Without a us-gaap section the loop over the metrics is skipped.
FetchFacts ==
    /\ pc = "found"
    /\ target_cik # 0
    /\ \E reply \in (IF run = 1
                     THEN {<<"none", d>> : d \in Documents(suite)}
                     ELSE Related(suite, fetched[1])) :
         /\ relation' = reply[1]
         /\ fetched' = [fetched EXCEPT ![run] = reply[2]]
         /\ \E o \in UnitOrders(reply[2].us_gaap.v) :
              /\ facts' = [entityName |-> reply[2].entityName,
                           us_gaap |-> reply[2].us_gaap,
                           unit_order |-> o]
              /\ unit_orders' = [unit_orders EXCEPT ![run] = o]
         /\ pc' = IF reply[2].us_gaap.some THEN "metric" ELSE "emit"
    /\ UNCHANGED <<inputs, run, target_ticker, mapping_resp, target_cik, mi,
                   extracted_data, ri, unique_map, results, out, status,
                   pools>>

\* lines 91-133 and 138: the pool of the metric in progress
ExtractMetric ==
    /\ pc = "metric"
    /\ LET m == metrics_config[mi]
           pool == PoolTags(facts.us_gaap.v, facts.unit_order, m.tags,
                            m.is_instant)
       IN  /\ extracted_data' = pool
           /\ pools' = [pools EXCEPT ![run] = Insert(@, m.name, pool)]
    /\ unique_map' = EmptyMap
    /\ ri' = 0
    /\ pc' = "reconcile"
    /\ UNCHANGED <<inputs, service, run, target_ticker, mapping_resp, target_cik,
                   facts, mi, results, out, status, unit_orders>>

\* lines 139-144: the next pair of extracted_data
ReconcileStep ==
    /\ pc = "reconcile"
    /\ ri < Len(extracted_data)
    /\ unique_map' = Reconcile(unique_map, extracted_data[ri + 1][1],
                               extracted_data[ri + 1][2])
    /\ ri' = ri + 1
    /\ UNCHANGED <<inputs, service, run, pc, target_ticker, mapping_resp, target_cik,
                   facts, mi, extracted_data, results, out, status, ghosts>>

\* a variant of FinalVec that leaves the pairs in the map's iteration order
FinalVecUnsorted(map, order) == Collect(map, order)

\* lines 146-147: the map's pairs, in its iteration order, sorted by year
FinalVec(map, order) == SortByKey(Collect(map, order))

CollectSort ==
    /\ pc = "reconcile"
    /\ ri = Len(extracted_data)
    /\ \E order \in Perms(DOMAIN unique_map) :
         results' = Insert(results, metrics_config[mi].name,
                           FinalVec(unique_map, order))
    /\ mi' = mi + 1
    /\ pc' = IF mi = NumMetrics THEN "emit" ELSE "metric"
    /\ UNCHANGED <<inputs, service, run, target_ticker, mapping_resp, target_cik,
                   facts, extracted_data, ri, unique_map, out, status, ghosts>>

\* lines 153-160: the report is printed and main returns Ok
Emit ==
    /\ pc = "emit"
    /\ out' = [out EXCEPT ![run] =
                  <<[ticker |-> target_ticker, cik |-> target_cik,
                     name |-> facts.entityName, financials |-> results]>>]
    /\ Return("Ok")
    /\ UNCHANGED <<inputs, service, run, locals, ghosts>>

\* the program is run again, on the same command line
NextRun ==
    /\ pc = "exit"
    /\ run = 1
    /\ run' = 2
    /\ pc' = "start"
    /\ target_ticker' = None
    /\ mapping_resp' = None
    /\ target_cik' = 0
    /\ facts' = None
    /\ mi' = 1
    /\ extracted_data' = <<>>
    /\ ri' = 0
    /\ unique_map' = EmptyMap
    /\ results' = EmptyMap
    /\ UNCHANGED <<inputs, service, out, status, ghosts>>

Next ==
    \/ NoSymbol
    \/ ReadSymbol
    \/ FetchMapping
    \/ FetchFails
    \/ Lookup
    \/ NotFound
    \/ FetchFacts
    \/ ExtractMetric
    \/ ReconcileStep
    \/ CollectSort
    \/ Emit
    \/ NextRun

Spec == Init /\ [][Next]_vars

SpecClassify == InitClassify /\ [][Next]_vars

(***************************************************************************)
(* Vocabulary of the properties.                                           *)
(***************************************************************************)
Runs == 1..2

Printed(r) == out[r] # <<>>

\* the series of metric n in the report that run r printed
Series(r, n) == out[r][1].financials[n]

YearsOf(p) == {p[i][1] : i \in 1..Len(p)}

ValuesOf(p, y) == {p[i][2] : i \in {j \in 1..Len(p) : p[j][1] = y}}

StrictlyIncreasing(v) == \A i \in 1..(Len(v) - 1) : v[i][1] < v[i + 1][1]

\* v is a value of year y in p that no value of year y exceeds in magnitude
IsMaxAbs(v, p, y) ==
    /\ v \in ValuesOf(p, y)
    /\ \A w \in ValuesOf(p, y) : Abs(v) >= Abs(w)

\* the first value of year y in p, in the order of p, that no value of
\* year y exceeds in magnitude
FirstMaxAbs(p, y) ==
    LET best == {i \in 1..Len(p) :
                    /\ p[i][1] = y
                    /\ \A j \in 1..Len(p) :
                          p[j][1] = y => Abs(p[i][2]) >= Abs(p[j][2])}
        first == CHOOSE i \in best : \A j \in best : i <= j
    IN  p[first][2]

\* the pairs of extracted_data the reconciliation loop has processed
Processed == SubSeq(extracted_data, 1, ri)

\* the number of times x occurs in p
Count(p, x) == Cardinality({i \in 1..Len(p) : p[i] = x})

SameBag(p, q) ==
    /\ Len(p) = Len(q)
    /\ \A x \in Range(p) \cup Range(q) : Count(p, x) = Count(q, x)

(***************************************************************************)
(* C1.  Every series, while it is built and in the printed report, has     *)
(* strictly increasing fiscal years: no two points share a year, whatever  *)
(* the number, order and overlap of the pooled observations.               *)
(***************************************************************************)
C1_YearsStrictlyIncreasing ==
    /\ \A n \in DOMAIN results : StrictlyIncreasing(results[n])
    /\ \A r \in Runs : Printed(r) =>
          \A n \in DOMAIN out[r][1].financials :
              StrictlyIncreasing(Series(r, n))

\* a printed two-point series whose pool held the later year first
C1_Witness ==
    \E r \in Runs :
        /\ Printed(r)
        /\ "Revenue" \in DOMAIN out[r][1].financials
        /\ Len(Series(r, "Revenue")) = 2
        /\ Len(pools[r]["Revenue"]) >= 2
        /\ pools[r]["Revenue"][1][1] > pools[r]["Revenue"][2][1]

(***************************************************************************)
(* C2.  After each prefix of the pool, the map holds exactly the fiscal    *)
(* years of the prefix, each with a value of that year of greatest         *)
(* magnitude, its sign unchanged; and every collected series holds exactly *)
(* one point per fiscal year of its pool, with such a value, and no point  *)
(* for any other year.                                                     *)
(***************************************************************************)
OnePointPerYear(v, p) ==
    /\ \A y \in YearsOf(p) :
          /\ Cardinality({i \in 1..Len(v) : v[i][1] = y}) = 1
          /\ \A i \in 1..Len(v) : v[i][1] = y => IsMaxAbs(v[i][2], p, y)
    /\ \A i \in 1..Len(v) : v[i][1] \in YearsOf(p)

C2_MaxMagnitudePerYear ==
    /\ pc = "reconcile" =>
          /\ DOMAIN unique_map = YearsOf(Processed)
          /\ \A y \in DOMAIN unique_map :
                IsMaxAbs(unique_map[y], Processed, y)
    /\ \A n \in DOMAIN results : OnePointPerYear(results[n], pools[run][n])
    /\ \A r \in Runs : Printed(r) =>
          \A n \in DOMAIN out[r][1].financials :
              OnePointPerYear(Series(r, n), pools[r][n])

\* a printed point -150 for a year whose pool held 100 before -150
C2_Witness ==
    \E r \in Runs :
        /\ Printed(r)
        /\ "Revenue" \in DOMAIN out[r][1].financials
        /\ Series(r, "Revenue") = << <<2020, -150>> >>
        /\ pools[r]["Revenue"] = << <<2020, 100>>, <<2020, -150>> >>

(***************************************************************************)
(* C3.  Among the values of one fiscal year of equal greatest magnitude,   *)
(* the one retained is the first in the processing order of the pool:      *)
(* after each prefix, and in every collected series.                       *)
(***************************************************************************)
FirstSeenKept(v, p) ==
    \A i \in 1..Len(v) :
        v[i][1] \in YearsOf(p) => v[i][2] = FirstMaxAbs(p, v[i][1])

C3_TiesKeepFirstSeen ==
    /\ pc = "reconcile" =>
          \A y \in DOMAIN unique_map :
              y \in YearsOf(Processed) =>
                  unique_map[y] = FirstMaxAbs(Processed, y)
    /\ \A n \in DOMAIN results : FirstSeenKept(results[n], pools[run][n])
    /\ \A r \in Runs : Printed(r) =>
          \A n \in DOMAIN out[r][1].financials :
              FirstSeenKept(Series(r, n), pools[r][n])

\* 100 then -100 for one year, and the printed point is 100
C3_Witness ==
    \E r \in Runs :
        /\ Printed(r)
        /\ "Revenue" \in DOMAIN out[r][1].financials
        /\ pools[r]["Revenue"] = << <<2020, 100>>, <<2020, -100>> >>
        /\ Series(r, "Revenue") = << <<2020, 100>> >>

(***************************************************************************)
(* C4.  Two runs on the same document print the same report.               *)
(***************************************************************************)
C4_SameDocumentSameReport ==
    (relation = "same" /\ Printed(1) /\ Printed(2)) => out[1] = out[2]

(***************************************************************************)
(* C7.  Every printed report maps every catalog metric to a series, and a  *)
(* metric with no surviving observation to the empty series.               *)
(***************************************************************************)
C7_EveryMetricKeyed ==
    \A r \in Runs : Printed(r) =>
        /\ DOMAIN out[r][1].financials = MetricNames
        /\ \A n \in MetricNames :
              (n \in DOMAIN pools[r] => pools[r][n] = <<>>)
                  => Series(r, n) = <<>>

(***************************************************************************)
(* C8.  A run whose symbol is in no entry of the ticker table returns an   *)
(* error and prints no report.                                             *)
(***************************************************************************)
Unlisted(symbol) ==
    /\ symbol # None
    /\ \A k \in DOMAIN TickerTable :
          TickerTable[k].ticker # ToUppercase(symbol)

C8_UnlistedSymbolFails ==
    \A r \in Runs :
        (Unlisted(args) /\ status[r] # "running") =>
            (status[r] = "Err" /\ ~Printed(r))

(***************************************************************************)
(* C9.  When the second run's document is the first's with one observation *)
(* moved to another alias of its metric or to another unit bucket, each    *)
(* metric pools the same (fiscal year, value) pairs in both runs, each as  *)
(* many times.                                                             *)
(***************************************************************************)
C9_PoolIgnoresAliasAndUnit ==
    relation = "moved" =>
        \A n \in DOMAIN pools[1] \cap DOMAIN pools[2] :
            SameBag(pools[1][n], pools[2][n])

\* an observation moved to a tag the first document did not hold, and the
\* second run has pooled Revenue, in another order than the first
C9_Witness ==
    /\ relation = "moved"
    /\ "Revenue" \in DOMAIN pools[2]
    /\ DOMAIN fetched[1].us_gaap.v # DOMAIN fetched[2].us_gaap.v
    /\ Len(pools[2]["Revenue"]) = 2
    /\ pools[1]["Revenue"] # pools[2]["Revenue"]

(***************************************************************************)
(* The observations of a metric in the order the program meets them, and   *)
(* the keep rules as the specification words them.                         *)
(***************************************************************************)
RECURSIVE RawBuckets(_, _)
RawBuckets(data, order) ==
    IF order = <<>> THEN <<>>
    ELSE data[Head(order)] \o RawBuckets(data, Tail(order))

RECURSIVE RawTags(_, _, _)
RawTags(gaap, orders, tags) ==
    IF tags = <<>> THEN <<>>
    ELSE (IF Head(tags) \in DOMAIN gaap
          THEN RawBuckets(gaap[Head(tags)], orders[Head(tags)])
          ELSE <<>>) \o RawTags(gaap, orders, Tail(tags))

\* the observations of metric i that run r met
RawOf(r, i) ==
    RawTags(fetched[r].us_gaap.v, unit_orders[r], metrics_config[i].tags)

Parses(text) == text.some /\ ParseDate(text.v).ok

CalendarYear(text) == ParseDate(text.v).y

\* FLOW: value present, both dates present and parsed, 350 < days < 380
FlowKeeps(o) ==
    /\ o.val.some
    /\ Parses(o.end)
    /\ Parses(o.start)
    /\ LET d == NumDays(ParseDate(o.end.v), ParseDate(o.start.v))
       IN  350 < d /\ d < 380

\* INSTANT: value present, periodEnd present and parsed
InstantKeeps(o) == o.val.some /\ Parses(o.end)

Keeps(o, is_instant) == IF is_instant THEN InstantKeeps(o) ELSE FlowKeeps(o)

\* the pairs of the kept observations of raw, with the fiscal year the
\* calendar year of periodEnd, reduced modulo w when w > 0
RECURSIVE KeptPairs(_, _, _)
KeptPairs(raw, is_instant, w) ==
    IF raw = <<>> THEN <<>>
    ELSE (IF Keeps(Head(raw), is_instant)
          THEN LET y == CalendarYear(Head(raw).end)
               IN  << <<IF w > 0 THEN y % w ELSE y, Head(raw).val.v>> >>
          ELSE <<>>) \o KeptPairs(Tail(raw), is_instant, w)

\* each pool of kind is_instant is the kept pairs of its observations
PoolsFollowRule(is_instant, w) ==
    \A r \in Runs : \A i \in 1..NumMetrics :
        (/\ metrics_config[i].is_instant = is_instant
         /\ metrics_config[i].name \in DOMAIN pools[r])
        => pools[r][metrics_config[i].name]
               = KeptPairs(RawOf(r, i), is_instant, w)

(***************************************************************************)
(* C5.  The pool of a FLOW metric holds exactly the observations with a    *)
(* value, a periodEnd and a periodStart that parse, and a day difference d *)
(* with 350 < d < 380, each with the calendar year of periodEnd as its     *)
(* fiscal year.                                                            *)
(***************************************************************************)
C5_FlowKeepRule == PoolsFollowRule(FALSE, 0)

\* the same, with the fiscal year the calendar year modulo 2^16
C5_FlowKeepRuleU16 == PoolsFollowRule(FALSE, 65536)

(***************************************************************************)
(* C6.  The pool of an INSTANT metric holds exactly the observations with  *)
(* a value and a periodEnd that parses, whatever periodStart is, each with *)
(* the calendar year of periodEnd as its fiscal year.                      *)
(***************************************************************************)
C6_InstantKeepRule == PoolsFollowRule(TRUE, 0)

\* the same, with the fiscal year the calendar year modulo 2^16
C6_InstantKeepRuleU16 == PoolsFollowRule(TRUE, 65536)

(***************************************************************************)
(* C10.  When the second run's document is the first's without one skipped *)
(* observation, or without one tag of no metric, both runs print a report  *)
(* and the two reports are equal.                                          *)
(***************************************************************************)
C10_SkippedLeavesReportUnchanged ==
    (relation = "removed" /\ status[1] = "Ok" /\ status[2] = "Ok") =>
        (Printed(1) /\ Printed(2) /\ out[1] = out[2])

\* the same, for two runs whose unit maps iterate in the same order
SameUnitOrders ==
    \A t \in DOMAIN unit_orders[1] \cap DOMAIN unit_orders[2] :
        unit_orders[1][t] = unit_orders[2][t]

C10_UnchangedUnderSameOrders ==
    (relation = "removed" /\ status[1] = "Ok" /\ status[2] = "Ok"
        /\ SameUnitOrders) =>
        (Printed(1) /\ Printed(2) /\ out[1] = out[2])

\* C4, for two runs whose unit maps iterate in the same order
C4_SameReportUnderSameOrders ==
    (relation = "same" /\ Printed(1) /\ Printed(2) /\ SameUnitOrders)
        => out[1] = out[2]

\* C7, for the documents that have a us-gaap section
C7_KeyedWhenGaapPresent ==
    \A r \in Runs : (Printed(r) /\ fetched[r].us_gaap.some) =>
        /\ DOMAIN out[r][1].financials = MetricNames
        /\ \A n \in MetricNames : pools[r][n] = <<>> => Series(r, n) = <<>>
====
